---- MODULE Spec2Model ----
(***************************************************************************)
(* The network indexer of chain/ethereum/src/network_indexer/              *)
(* network_indexer.rs: the StateMachine future that polls the chain head,  *)
(* pulls ranges of blocks, vets each block against the local head, adds it *)
(* or handles a reorg by reverting to the fork base, and emits AddBlock    *)
(* and Revert events on a bounded channel.                                 *)
(***************************************************************************)
EXTENDS Integers, Sequences, FiniteSets, TLC

(***************************************************************************)
(* Bounds of the model.                                                    *)
(***************************************************************************)
\* Highest block number of the block universe.
MaxHeight == 3
\* How many times the remote chain may switch to another chain head.
MaxRemoteMoves == 2
\* How many adapter, store, writer failures (and invalid blocks) may occur.
MaxFailures == 1
\* `remaining_blocks.min(1000)`: the range cap, scaled down.
RangeCap == 3
\* `.buffered(100)`: the fetch fan-out, scaled down.
Buffered == 2
\* How many calls of take_event_stream are followed.
MaxTakes == 3
\* `channel(100)`: the buffer of the event channel, scaled down.
ChannelBuffer == 1

(***************************************************************************)
(* Options (Rust's Option<T>) are sets with at most one element.           *)
(***************************************************************************)
None == {}
Some(x) == {x}
IsSome(o) == o /= {}
Unwrap(o) == CHOOSE x \in o : TRUE

RECURSIVE Reverse(_)
Reverse(s) == IF s = <<>> THEN <<>> ELSE Append(Reverse(Tail(s)), Head(s))

Last(s) == s[Len(s)]

Min(a, b) == IF a < b THEN a ELSE b

(***************************************************************************)
(* The block universe of the remote network: a main branch a0..aMax and a  *)
(* side branch that forks off it after block #ForkNumber.  A block is      *)
(* the part of BlockWithUncles the indexer reads: number, hash and         *)
(* parent_hash.  A number of -1 stands for a missing number (a block that  *)
(* fails validation).                                                      *)
(***************************************************************************)
\* The parent hash of block #0.
ZeroHash == 0
\* The side branch forks off after the main block of this number.
ForkNumber == 0
MainHash(n) == n + 1
SideHash(n) == 100 + n

MainBlock(n) ==
    [number |-> n, hash |-> MainHash(n),
     parent_hash |-> IF n = 0 THEN ZeroHash ELSE MainHash(n - 1)]

SideBlock(n) ==
    [number |-> n, hash |-> SideHash(n),
     parent_hash |-> IF n = ForkNumber + 1 THEN MainHash(ForkNumber)
                     ELSE SideHash(n - 1)]

Universe ==
    {MainBlock(n) : n \in 0..MaxHeight}
        \cup {SideBlock(n) : n \in (ForkNumber + 1)..MaxHeight}

\* EthereumBlockPointer of a block: `block.inner().into()`.
Ptr(b) == [number |-> b.number, hash |-> b.hash]

\* The block of the universe with hash h, if any (adapter.block_by_hash).
BlockByHash(h) == {b \in Universe : b.hash = h}

\* The ancestors of block b within the universe, b included.
RECURSIVE Ancestors(_)
Ancestors(b) ==
    {b} \cup (IF BlockByHash(b.parent_hash) = {} THEN {}
              ELSE Ancestors(Unwrap(BlockByHash(b.parent_hash))))

\* adapter.block_by_number against the canonical chain that ends in `head`.
BlockByNumber(head, n) == {b \in Ancestors(head) : b.number = n}

\* LightEthereumBlock / BlockWithUncles validation: number and hash present.
IsValid(b) == b.number /= -1 /\ b.hash /= -1

\* `parent_ptr()`: none for block #0, else (number - 1, parent_hash).
parent_ptr(b) ==
    IF b.number = 0 THEN None
    ELSE Some([number |-> b.number - 1, hash |-> b.parent_hash])

VARIABLES
    pc,             \* the state of the StateMachine
    error,          \* why the machine ended in Failed ("" while it runs)
    local_head,     \* local_head / old_local_head of the current state
    next_blocks,    \* the block stream: prepended blocks, range, fetches
    block,          \* the block of VetBlock / FetchForkedBlocks / AddBlock
    phase,          \* position inside the future the state waits for
    load,           \* LoadLocalHead: the result of store.block_ptr
    fork_base,      \* RevertToForkBase: the fork base pointer
    blocks,         \* RevertToForkBase: the pointers collected for revert
    idx,            \* RevertToForkBase: the pair being reverted
    store_blocks,   \* store: the Block entities of the deployment
    store_ptr,      \* store: block_ptr of the deployment (the tip)
    remote_head,    \* adapter: the head block of the remote chain
    emitted,        \* every event put on the channel, in order
    undelivered,    \* events in the channel not yet taken by the consumer
    parked,         \* the sending Sender is parked (channel over capacity)
    closed,         \* the consumer dropped the Receiver
    writes,         \* history: pointers the block writer wrote successfully
    reverts,        \* history: <<from, to>> pairs the store reverted
    init_head,      \* history: the store tip at construction
    failures,       \* the component of each call that failed so far
    moves,          \* remote head switches so far
    output,         \* NetworkIndexer.output: the Receiver, until taken
    taken           \* what each call of take_event_stream returned

vars == <<pc, error, local_head, next_blocks, block, phase, load,
          fork_base, blocks, idx, store_blocks, store_ptr, remote_head,
          emitted, undelivered, parked, closed, writes, reverts, init_head,
          failures, moves, output, taken>>

machine == <<pc, error, local_head, next_blocks, block, phase,
             load, fork_base, blocks, idx>>
store == <<store_blocks, store_ptr, writes, reverts>>
channel == <<emitted, undelivered, parked>>

(***************************************************************************)
(* Values of fields a state does not have.                                 *)
(***************************************************************************)
NoStream == [pre |-> <<>>, lo |-> 0, hi |-> 0, queue |-> <<>>]
NoLoad == [ok |-> TRUE, ptr |-> None]

\* The events of NetworkIndexerEvent.
AddBlockEvent(p) == [type |-> "AddBlock", block |-> p]
RevertEvent(f, t) == [type |-> "Revert", from |-> f, to |-> t]

(***************************************************************************)
(* The indexer just constructed (StateMachine::start).  The store holds a  *)
(* chain indexed by an earlier run, or nothing; the remote chain ends in   *)
(* any block of the universe.                                              *)
(***************************************************************************)
\* The Receiver of channel(100), as NetworkIndexer.output holds it.
Receiver == "Receiver"

Constructed ==
    /\ pc = "Start"
    /\ error = ""
    /\ local_head = None
    /\ next_blocks = NoStream
    /\ block = None
    /\ phase = ""
    /\ load = NoLoad
    /\ fork_base = None
    /\ blocks = <<>>
    /\ idx = 0
    /\ \E tip \in {None} \cup {Some(b) : b \in Universe} :
          /\ store_blocks = (IF tip = None THEN {} ELSE Ancestors(Unwrap(tip)))
          /\ store_ptr = (IF tip = None THEN None ELSE Some(Ptr(Unwrap(tip))))
          /\ init_head = store_ptr
    /\ remote_head \in Universe
    /\ emitted = <<>>
    /\ undelivered = 0
    /\ parked = FALSE
    /\ closed = FALSE
    /\ writes = {}
    /\ reverts = {}
    /\ failures = <<>>
    /\ moves = 0

\* Init: the indexer constructed, and the consumer has taken the event
\* stream with the first call of take_event_stream.
Init ==
    /\ Constructed
    /\ output = None
    /\ taken = <<Some(Receiver)>>

(***************************************************************************)
(* Helpers of the transitions.                                             *)
(***************************************************************************)
\* u64 arithmetic wraps modulo 2^64 when overflow checks are off; TLC's
\* integers are 32 bits wide, so the modulus is scaled to 2^30 (far above
\* every number of the model, as 2^64 is far above every block number).
U64Modulus == 2 ^ 30
WrappingSub(a, b) == (a - b) % U64Modulus

CanFail == Len(failures) < MaxFailures
Failure(call) == failures' = Append(failures, call)
NoFailure == failures' = failures

\* transition!(S { .. }): the fields of the next state; what the next state
\* does not have is dropped.
Goto(p, lh, nb, b, ph) ==
    /\ pc' = p
    /\ local_head' = lh
    /\ next_blocks' = nb
    /\ block' = b
    /\ phase' = ph
    /\ load' = NoLoad
    /\ error' = error

NoRevert == fork_base' = None /\ blocks' = <<>> /\ idx' = 0

\* A faulty variant: the local head is dropped with the rest of the state.
ToPollChainHeadReset(lh) ==
    /\ Goto("PollChainHead", None, NoStream, None, "")
    /\ NoRevert

\* transition!(PollChainHead { local_head, chain_head: poll_chain_head(..) }):
\* the block stream and everything else of the old state is dropped.
ToPollChainHead(lh) ==
    /\ Goto("PollChainHead", lh, NoStream, None, "")
    /\ NoRevert

\* try_ready!(context.event_sink.poll_ready()) on a closed channel: the poll
\* returns the SendError, the future resolves to the error, the state is
\* dropped.
EventSinkClosed ==
    /\ closed
    /\ pc' = "Failed"
    /\ error' = "closed"
    /\ local_head' = None
    /\ next_blocks' = NoStream
    /\ block' = None
    /\ phase' = ""
    /\ load' = NoLoad
    /\ NoRevert
    /\ UNCHANGED <<store, channel, closed, remote_head, init_head, output, taken, failures, moves>>

\* A panic inside the spawned task (an `expect`, or an arithmetic overflow
\* in a build with overflow checks): the task ends, the state is dropped.
Panic ==
    /\ pc' = "Panicked"
    /\ error' = error
    /\ local_head' = None
    /\ next_blocks' = NoStream
    /\ block' = None
    /\ phase' = ""
    /\ load' = NoLoad
    /\ NoRevert

\* fetch_blocks(block_numbers): a stream over lo..hi with no fetch started.
fetch_blocks(lo, hi) == [pre |-> <<>>, lo |-> lo, hi |-> hi, queue |-> <<>>]

(***************************************************************************)
(* Start and LoadLocalHead.                                                *)
(***************************************************************************)
poll_start ==
    /\ pc = "Start"
    /\ \/ EventSinkClosed
       \/ /\ ~closed
          /\ \/ load' = [ok |-> TRUE, ptr |-> store_ptr] /\ NoFailure
             \/ CanFail /\ load' = [ok |-> FALSE, ptr |-> None]
                /\ Failure("store")
          /\ pc' = "LoadLocalHead"
          /\ UNCHANGED <<error, local_head, next_blocks, block,
                         phase, fork_base, blocks, idx>>
          /\ UNCHANGED <<store, channel, closed, remote_head, init_head, output, taken, moves>>

poll_load_local_head ==
    /\ pc = "LoadLocalHead"
    /\ \/ EventSinkClosed
       \/ /\ ~closed
          /\ load.ok
          /\ ToPollChainHead(load.ptr)
          /\ UNCHANGED <<store, channel, closed, remote_head, init_head, output, taken,
                         failures, moves>>
       \/ /\ ~closed
          /\ ~load.ok
          /\ pc' = "Failed"
          /\ error' = "load_local_head"
          /\ load' = NoLoad
          /\ UNCHANGED <<local_head, next_blocks, block, phase,
                         fork_base, blocks, idx>>
          /\ UNCHANGED <<store, channel, closed, remote_head, init_head, output, taken,
                         failures, moves>>

(***************************************************************************)
(* PollChainHead.                                                          *)
(***************************************************************************)
\* A faulty variant: the range starts at the local head itself.
next_block_number_at_head(lh) == IF lh = None THEN 0 ELSE Unwrap(lh).number

\* `state.local_head.map_or(0u64, |ptr| ptr.number + 1)`
next_block_number(lh) == IF lh = None THEN 0 ELSE Unwrap(lh).number + 1

\* The light block adapter.latest_block reports.
LightBlock(b) == [number |-> b.number, hash |-> b.hash]

poll_poll_chain_head ==
    /\ pc = "PollChainHead"
    /\ \/ EventSinkClosed
       \/ \* a light block without number or hash: poll again
          /\ ~closed
          /\ CanFail
          /\ ~IsValid([LightBlock(remote_head) EXCEPT !.number = -1])
          /\ Failure("adapter")
          /\ ToPollChainHead(local_head)
          /\ UNCHANGED <<store, channel, closed, remote_head, init_head, output, taken, moves>>
       \/ \* Err(e): poll again
          /\ ~closed
          /\ CanFail
          /\ Failure("adapter")
          /\ ToPollChainHead(local_head)
          /\ UNCHANGED <<store, channel, closed, remote_head, init_head, output, taken, moves>>
       \/ \* a valid chain head
          /\ ~closed
          /\ LET head == LightBlock(remote_head)
                 chain_head_number == head.number
                 next == next_block_number(local_head)
                 overflow == chain_head_number + 1 < next
                 remaining_blocks == WrappingSub(chain_head_number + 1, next)
                 block_range_size == Min(remaining_blocks, RangeCap)
             IN  \/ /\ Goto("ProcessBlocks", local_head,
                            fetch_blocks(next, next + block_range_size),
                            None, "")
                    /\ NoRevert
                 \/ overflow /\ Panic
          /\ UNCHANGED <<store, channel, closed, remote_head, init_head, output, taken,
                         failures, moves>>

(***************************************************************************)
(* The block stream: stream::iter_ok(forked blocks).chain(..) in front of  *)
(* iter_ok(lo..hi).map(fetch_block_and_uncles_by_number).buffered(100).    *)
(* `pre` are the prepended blocks, lo..hi the numbers no fetch was started *)
(* for, `queue` the started fetches in number order, each pending (None)   *)
(* or completed (Some(result)).                                            *)
(***************************************************************************)
Pending(n) == [number |-> n, result |-> None]

\* A faulty variant: a fetch is started for every number of the range.
RECURSIVE FillUnbounded(_)
FillUnbounded(s) ==
    IF s.lo < s.hi
    THEN FillUnbounded([s EXCEPT !.queue = Append(@, Pending(s.lo)),
                                 !.lo = @ + 1])
    ELSE s

\* Buffered::poll, first part: start fetches until `Buffered` are in flight.
RECURSIVE Fill(_)
Fill(s) ==
    IF Len(s.queue) < Buffered /\ s.lo < s.hi
    THEN Fill([s EXCEPT !.queue = Append(@, Pending(s.lo)), !.lo = @ + 1])
    ELSE s

\* A completed fetch failed: FuturesOrdered hands an element's error on as
\* soon as it polls the failed future, whatever its position.
HasError(s) ==
    \E i \in 1..Len(s.queue) :
        s.queue[i].result /= None /\ Unwrap(s.queue[i].result).kind = "err"

\* next_blocks.poll(): "block" (Some(Some(b))), "none" (Some(None)),
\* "end" (None), "err" (Err), "pending" (NotReady); with the stream after
\* the poll.
PollStream(s) ==
    IF s.pre /= <<>>
    THEN [status |-> "block", item |-> Some(Head(s.pre)),
          stream |-> [s EXCEPT !.pre = Tail(@)]]
    ELSE LET f == Fill(s)
         IN  IF HasError(f)
             THEN [status |-> "err", item |-> None, stream |-> f]
             ELSE IF f.queue = <<>>
             THEN [status |-> "end", item |-> None, stream |-> f]
             ELSE IF Head(f.queue).result = None
             THEN [status |-> "pending", item |-> None, stream |-> f]
             ELSE LET r == Unwrap(Head(f.queue).result)
                      rest == [f EXCEPT !.queue = Tail(@)]
                  IN  IF r.kind = "none"
                      THEN [status |-> "none", item |-> None, stream |-> rest]
                      ELSE [status |-> "block", item |-> Some(r.block),
                            stream |-> rest]

\* A fetch in flight completes: block_by_number, load_full_block and uncles
\* against the remote chain as it is now.  (With the receiver gone the next
\* poll ends the machine, and no result is looked at any more.)
fetch_block_and_uncles_by_number ==
    /\ pc \in {"ProcessBlocks", "VetBlock", "FetchForkedBlocks",
               "RevertToForkBase", "AddBlock"}
    /\ ~closed
    /\ \E i \in 1..Len(next_blocks.queue) :
          /\ next_blocks.queue[i].result = None
          /\ LET n == next_blocks.queue[i].number
                 found == BlockByNumber(remote_head, n)
                 Done(r) == next_blocks' =
                     [next_blocks EXCEPT !.queue[i].result = Some(r)]
             IN  \/ \* the adapter has the block
                    /\ found /= None
                    /\ Done([kind |-> "block", block |-> Unwrap(found)])
                    /\ NoFailure
                 \/ \* the remote chain has no block of this number
                    /\ found = None
                    /\ Done([kind |-> "none"])
                    /\ NoFailure
                 \/ \* a gap: the adapter does not find a block of its chain
                    /\ found /= None
                    /\ CanFail
                    /\ Done([kind |-> "none"])
                    /\ Failure("adapter")
                 \/ \* a block without a number
                    /\ found /= None
                    /\ CanFail
                    /\ Done([kind |-> "block",
                             block |-> [Unwrap(found) EXCEPT !.number = -1]])
                    /\ Failure("adapter")
                 \/ \* one of the adapter calls fails
                    /\ CanFail
                    /\ Done([kind |-> "err"])
                    /\ Failure("adapter")
    /\ UNCHANGED <<pc, error, local_head, block, phase, load,
                   fork_base, blocks, idx>>
    /\ UNCHANGED <<store, channel, closed, remote_head, init_head, output, taken, moves>>

(***************************************************************************)
(* ProcessBlocks.                                                          *)
(***************************************************************************)
poll_process_blocks ==
    /\ pc = "ProcessBlocks"
    /\ \/ EventSinkClosed
       \/ /\ ~closed
          /\ LET p == PollStream(next_blocks)
             IN  \/ \* Ok(Async::NotReady): the poll started fetches
                    /\ p.status = "pending"
                    /\ p.stream /= next_blocks
                    /\ next_blocks' = p.stream
                    /\ UNCHANGED <<pc, error, local_head, block,
                                   phase, load, fork_base, blocks, idx>>
                 \/ \* Ok(Async::Ready(None)): the stream is exhausted
                    /\ p.status = "end"
                    /\ ToPollChainHead(local_head)
                 \/ \* Ok(Async::Ready(Some(None))): a gap
                    /\ p.status = "none"
                    /\ ToPollChainHead(local_head)
                 \/ \* Ok(Async::Ready(Some(Some(block))))
                    /\ p.status = "block"
                    /\ Goto("VetBlock", local_head, p.stream,
                            p.item, "")
                    /\ NoRevert
                 \/ \* Err(e)
                    /\ p.status = "err"
                    /\ ToPollChainHead(local_head)
          /\ UNCHANGED <<store, channel, closed, remote_head, init_head, output, taken,
                         failures, moves>>

(***************************************************************************)
(* VetBlock.                                                               *)
(***************************************************************************)
\* `state.local_head.map_or(0u64, |ptr| ptr.number)`
local_head_number(lh) == IF lh = None THEN 0 ELSE Unwrap(lh).number

\* The block is older than the local head.
IsStale(b, lh) == b.number < local_head_number(lh)

\* A faulty variant: only the numbers of block and local head are compared.
IsReorgByNumber(b, lh) ==
    b.number /= (IF lh = None THEN 0 ELSE Unwrap(lh).number + 1)

\* A faulty variant: a machine without a local head takes the reorg branch.
IsReorgWithoutHead(b, lh) == lh = None \/ parent_ptr(b) /= lh

\* A faulty variant: only hashes are compared, and no local head is a
\* mismatch.
IsReorgByHash(b, lh) == lh = None \/ b.parent_hash /= Unwrap(lh).hash

\* "Check whether we have a reorg (parent of the block != our local head)."
IsReorg(b, lh) == parent_ptr(b) /= lh

\* A faulty variant: the event is sent without the write before it.
SendWithoutWrite == <<"send", "send">>

\* new_local_head of AddBlock:
\* write_block(..).and_then(send_event(..)).and_then(ok(block_ptr)).
AddBlockStages == <<"write", "send">>

poll_vet_block ==
    /\ pc = "VetBlock"
    /\ \/ EventSinkClosed
       \/ /\ ~closed
          /\ LET b == Unwrap(block)
             IN  \/ \* number or hash missing
                    /\ ~IsValid(b)
                    /\ ToPollChainHead(local_head)
                 \/ \* older than the local head
                    /\ IsValid(b)
                    /\ IsStale(b, local_head)
                    /\ ToPollChainHead(local_head)
                 \/ \* a reorg: fetch_forked_blocks(block)
                    /\ IsValid(b)
                    /\ ~IsStale(b, local_head)
                    /\ IsReorg(b, local_head)
                    /\ Goto("FetchForkedBlocks", local_head,
                            next_blocks, block, "")
                    /\ NoRevert
                 \/ \* the successor of the local head: write_block, send_event
                    /\ IsValid(b)
                    /\ ~IsStale(b, local_head)
                    /\ ~IsReorg(b, local_head)
                    /\ Goto("AddBlock", local_head, next_blocks,
                            block, AddBlockStages[1])
                    /\ NoRevert
          /\ UNCHANGED <<store, channel, closed, remote_head, init_head, output, taken,
                         failures, moves>>

(***************************************************************************)
(* The store and the block writer.  Their code is not part of the indexer: *)
(* they are modelled from their contracts (both atomic).                   *)
(***************************************************************************)
\* store.get(block.to_entity_key(subgraph_id)): the Block entity of a hash.
StoreGet(h) == {e \in store_blocks : e.hash = h}

\* block_writer.write(block) succeeds: the block is indexed and is the tip.
BlockWriterWrite(b) ==
    /\ store_blocks' = store_blocks \cup {b}
    /\ store_ptr' = Some(Ptr(b))
    /\ writes' = writes \cup {Ptr(b)}
    /\ reverts' = reverts

\* store.revert_block_operations(subgraph_id, from, to) succeeds: what block
\* `from` wrote is undone and the tip is `to`.
RevertBlockOperations(from, to) ==
    /\ store_blocks' = {e \in store_blocks : e.hash /= from.hash}
    /\ store_ptr' = Some(to)
    /\ reverts' = reverts \cup {<<from, to>>}
    /\ writes' = writes

(***************************************************************************)
(* The event channel: channel(100) of futures::sync::mpsc.  Every event is *)
(* sent through a fresh clone of the Sender, which queues its message and  *)
(* is parked while the channel holds more than its buffer; the consumer    *)
(* taking a message unparks it.                                            *)
(***************************************************************************)
\* A faulty variant: the send never waits for room in the channel.
send_event_unbounded(e) ==
    /\ emitted' = Append(emitted, e)
    /\ undelivered' = undelivered + 1
    /\ parked' = FALSE

send_event(e) ==
    /\ emitted' = Append(emitted, e)
    /\ undelivered' = undelivered + 1
    /\ parked' = (undelivered + 1 > ChannelBuffer)

(***************************************************************************)
(* FetchForkedBlocks.                                                      *)
(***************************************************************************)
\* The loop of fetch_forked_blocks: from `head` back along parent_hash to
\* the first block the store has.
RECURSIVE ForkedWalk(_)
ForkedWalk(list) ==
    LET b == Last(list)
    IN  IF StoreGet(b.hash) /= {}
        THEN [ok |-> TRUE, blocks |-> list]
        ELSE IF BlockByHash(b.parent_hash) = None
        THEN [ok |-> FALSE, blocks |-> <<>>]
        ELSE ForkedWalk(Append(list, Unwrap(BlockByHash(b.parent_hash))))

\* A faulty variant: the walk stops at the head whatever the store holds.
fetch_forked_blocks_head_only(head) == [ok |-> TRUE, blocks |-> <<head>>]

fetch_forked_blocks(head) == ForkedWalk(<<head>>)

\* `forked_blocks.pop()` and
\* `iter_ok(forked_blocks.into_iter().map(Some).rev()).chain(next_blocks)`
Front(s) == SubSeq(s, 1, Len(s) - 1)
\* A faulty variant: the forked blocks are chained in without `.rev()`.
PrependUnreversed(forked, s) == [s EXCEPT !.pre = forked \o @]

Prepend(forked, s) == [s EXCEPT !.pre = Reverse(forked) \o @]

poll_fetch_forked_blocks ==
    /\ pc = "FetchForkedBlocks"
    /\ \/ EventSinkClosed
       \/ /\ ~closed
          /\ LET r == fetch_forked_blocks(Unwrap(block))
             IN  \/ \* Ok(Async::Ready(forked_blocks))
                    /\ r.ok
                    /\ local_head /= None
                    /\ Goto("RevertToForkBase", local_head,
                            Prepend(Front(r.blocks), next_blocks), None,
                            "collect")
                    /\ fork_base' = Some(Ptr(Last(r.blocks)))
                    /\ blocks' = <<>>
                    /\ idx' = 0
                    /\ NoFailure
                 \/ \* "cannot have a reorg if there is no local head block yet"
                    /\ r.ok
                    /\ local_head = None
                    /\ Panic
                    /\ NoFailure
                 \/ \* Err(e): a parent the remote does not know
                    /\ ~r.ok
                    /\ ToPollChainHead(local_head)
                    /\ NoFailure
                 \/ \* Err(e): store.get or a parent fetch fails
                    /\ CanFail
                    /\ ToPollChainHead(local_head)
                    /\ Failure("store")
          /\ UNCHANGED <<store, channel, closed, remote_head, init_head, output, taken, moves>>

(***************************************************************************)
(* RevertToForkBase.                                                       *)
(***************************************************************************)
\* The loop of collect_blocks_to_revert: from the local head back along the
\* stored parent to the fork base.  "underflow" is `block_ptr.number - 1` at
\* number 0.
RECURSIVE CollectWalk(_, _)
CollectWalk(list, base) ==
    LET p == Last(list)
    IN  IF p = base
        THEN [status |-> "ok", blocks |-> list]
        ELSE IF StoreGet(p.hash) = {}
        THEN [status |-> "err", blocks |-> <<>>]
        ELSE IF p.number = 0
        THEN [status |-> "underflow", blocks |-> <<>>]
        ELSE CollectWalk(
                 Append(list, [number |-> p.number - 1,
                               hash |-> Unwrap(StoreGet(p.hash)).parent_hash]),
                 base)

\* A faulty variant: the blocks between head and fork base are left out.
collect_head_and_base(head, base) ==
    [status |-> "ok", blocks |-> <<head, base>>]

collect_blocks_to_revert(head, base) == CollectWalk(<<head>>, base)

\* A faulty variant: the local head stays the head the reorg started from.
RevertDoneOldHead(block_ptr) ==
    /\ Goto("ProcessBlocks", local_head, next_blocks, None, "")
    /\ NoRevert

\* The revert future resolved to the fork base: Ok(Async::Ready(block_ptr)).
RevertDone(block_ptr) ==
    /\ Goto("ProcessBlocks", Some(block_ptr), next_blocks,
            None, "")
    /\ NoRevert

\* Err(e): `local_head: state.local_head`, the head the reorg started from.
RevertErr == ToPollChainHead(local_head)

\* A faulty variant: the pairs are zipped the wrong way round.
RevertPairSwapped(bs, i) == [from |-> bs[i + 1], to |-> bs[i]]

\* blocks[0..].zip(blocks[1..]): the i-th pair (from, to).
RevertPair(bs, i) == [from |-> bs[i], to |-> bs[i + 1]]

\* One step of revert_blocks: the pair (blocks[idx], blocks[idx + 1]) is
\* reverted in the store, and then its event is sent.
revert_blocks ==
    /\ phase = "revert"
    /\ LET from == RevertPair(blocks, idx).from
           to == RevertPair(blocks, idx).to
       IN  \/ \* the revert succeeds and the event is queued
              /\ ~closed
              /\ RevertBlockOperations(from, to)
              /\ send_event(RevertEvent(from, to))
              /\ IF parked'
                 THEN /\ phase' = "flush"
                      /\ UNCHANGED <<pc, error, local_head,
                                     next_blocks, block, load, fork_base,
                                     blocks, idx>>
                 ELSE IF idx + 1 = Len(blocks)
                 THEN RevertDone(Last(blocks))
                 ELSE /\ idx' = idx + 1
                      /\ UNCHANGED <<pc, error, local_head,
                                     next_blocks, block, phase, load,
                                     fork_base, blocks>>
              /\ NoFailure
           \/ \* the revert succeeds, the send fails: the channel is closed
              /\ closed
              /\ RevertBlockOperations(from, to)
              /\ RevertErr
              /\ UNCHANGED channel
              /\ NoFailure
           \/ \* revert_block_operations fails
              /\ CanFail
              /\ RevertErr
              /\ UNCHANGED <<store, channel>>
              /\ Failure("store")
    /\ UNCHANGED <<closed, remote_head, init_head, output, taken, moves>>

poll_revert_to_fork_base ==
    /\ pc = "RevertToForkBase"
    /\ \/ phase \in {"collect", "flush"} /\ ~parked /\ EventSinkClosed
       \/ \* the first poll: collect_blocks_to_revert
          /\ phase = "collect"
          /\ ~closed
          /\ LET c == collect_blocks_to_revert(Unwrap(local_head),
                                               Unwrap(fork_base))
             IN  \/ /\ c.status = "ok"
                    /\ Len(c.blocks) > 1
                    /\ blocks' = c.blocks
                    /\ idx' = 1
                    /\ phase' = "revert"
                    /\ UNCHANGED <<pc, error, local_head,
                                   next_blocks, block, load, fork_base>>
                    /\ NoFailure
                 \/ \* the local head is the fork base: nothing to revert
                    /\ c.status = "ok"
                    /\ Len(c.blocks) = 1
                    /\ RevertDone(Last(c.blocks))
                    /\ NoFailure
                 \/ \* "block missing in database"
                    /\ c.status = "err"
                    /\ RevertErr
                    /\ NoFailure
                 \/ \* number - 1 wraps: the next store.get finds nothing
                    /\ c.status = "underflow"
                    /\ RevertErr
                    /\ NoFailure
                 \/ \* number - 1 panics
                    /\ c.status = "underflow"
                    /\ Panic
                    /\ NoFailure
                 \/ \* store.get fails, or the parent field is missing or invalid
                    /\ CanFail
                    /\ RevertErr
                    /\ Failure("store")
          /\ UNCHANGED <<store, channel, closed, remote_head, init_head, output, taken, moves>>
       \/ revert_blocks
       \/ \* the parked send completed
          /\ phase = "flush"
          /\ ~parked
          /\ ~closed
          /\ IF idx + 1 = Len(blocks)
             THEN RevertDone(Last(blocks))
             ELSE /\ idx' = idx + 1
                  /\ phase' = "revert"
                  /\ UNCHANGED <<pc, error, local_head,
                                 next_blocks, block, load, fork_base, blocks>>
          /\ UNCHANGED <<store, channel, closed, remote_head, init_head, output, taken,
                         failures, moves>>

(***************************************************************************)
(* AddBlock: write_block(block), then send_event(AddBlock(block_ptr)).     *)
(***************************************************************************)
\* Faulty variants: the local head is not moved to the new block; the local
\* head is lost.
AddDoneOldHead(block_ptr) ==
    /\ Goto("ProcessBlocks", local_head, next_blocks, None, "")
    /\ NoRevert

AddDoneNoHead(block_ptr) ==
    /\ Goto("ProcessBlocks", None, next_blocks, None, "")
    /\ NoRevert

\* Ok(Async::Ready(block_ptr)): the block is the new local head.
AddDone(block_ptr) ==
    /\ Goto("ProcessBlocks", Some(block_ptr), next_blocks,
            None, "")
    /\ NoRevert

\* A faulty variant: the block whose write failed becomes the local head.
AddErrNewHead == ToPollChainHead(Some(Ptr(Unwrap(block))))

\* A faulty variant: the error keeps the block stream.
AddErrKeepsStream ==
    /\ Goto("PollChainHead", local_head, next_blocks, None, "")
    /\ NoRevert

\* Err(e): `local_head: state.old_local_head`.
AddErr == ToPollChainHead(local_head)

poll_add_block ==
    /\ pc = "AddBlock"
    /\ \/ phase \in {"write", "flush"} /\ ~parked /\ EventSinkClosed
       \/ \* write_block succeeds: and_then send_event
          /\ phase = "write"
          /\ ~closed
          /\ BlockWriterWrite(Unwrap(block))
          /\ phase' = AddBlockStages[2]
          /\ UNCHANGED <<pc, error, local_head, next_blocks,
                         block, load, fork_base, blocks, idx>>
          /\ UNCHANGED <<channel, closed, remote_head, init_head, output, taken, failures,
                         moves>>
       \/ \* write_block fails
          /\ phase = "write"
          /\ ~closed
          /\ CanFail
          /\ AddErr
          /\ Failure("block_writer")
          /\ UNCHANGED <<store, channel, closed, remote_head, init_head, output, taken, moves>>
       \/ \* send_event queues the event
          /\ phase = "send"
          /\ ~closed
          /\ send_event(AddBlockEvent(Ptr(Unwrap(block))))
          /\ IF parked'
             THEN /\ phase' = "flush"
                  /\ UNCHANGED <<pc, error, local_head,
                                 next_blocks, block, load, fork_base, blocks,
                                 idx>>
             ELSE AddDone(Ptr(Unwrap(block)))
          /\ UNCHANGED <<store, closed, remote_head, init_head, output, taken, failures,
                         moves>>
       \/ \* send_event fails: the channel is closed
          /\ phase = "send"
          /\ closed
          /\ AddErr
          /\ UNCHANGED <<store, channel, closed, remote_head, init_head, output, taken,
                         failures, moves>>
       \/ \* the parked send completed
          /\ phase = "flush"
          /\ ~parked
          /\ ~closed
          /\ AddDone(Ptr(Unwrap(block)))
          /\ UNCHANGED <<store, channel, closed, remote_head, init_head, output, taken,
                         failures, moves>>

(***************************************************************************)
(* The consumer of the event stream.                                       *)
(***************************************************************************)
\* The consumer takes the next event; that unparks a parked sender.
Receive ==
    /\ ~closed
    /\ undelivered > 0
    /\ undelivered' = undelivered - 1
    /\ parked' = FALSE
    /\ UNCHANGED <<machine, store, emitted, closed, remote_head, init_head, output, taken,
                   failures, moves>>

\* The consumer drops the Receiver; that unparks every sender.
Close ==
    /\ ~closed
    /\ closed' = TRUE
    /\ parked' = FALSE
    /\ UNCHANGED <<machine, store, emitted, undelivered, remote_head,
                   init_head, output, taken, failures, moves>>

(***************************************************************************)
(* The remote network: the chain head moves to another block (an append,   *)
(* or a reorg to another branch, forwards or backwards).  The indexer sees *)
(* the remote chain only through latest_block and the fetches by number,   *)
(* so the moves are taken while one of these requests is outstanding.      *)
(***************************************************************************)
RemoteMove ==
    /\ moves < MaxRemoteMoves
    /\ ~closed
    /\ \/ pc = "PollChainHead"
       \/ \E i \in 1..Len(next_blocks.queue) : next_blocks.queue[i].result = None
    /\ \E b \in Universe \ {remote_head} : remote_head' = b
    /\ moves' = moves + 1
    /\ UNCHANGED <<machine, store, channel, closed, init_head, output, taken, failures>>

Next ==
    \/ poll_start
    \/ poll_load_local_head
    \/ poll_poll_chain_head
    \/ poll_process_blocks
    \/ fetch_block_and_uncles_by_number
    \/ poll_vet_block
    \/ poll_fetch_forked_blocks
    \/ poll_revert_to_fork_base
    \/ poll_add_block
    \/ Receive
    \/ Close
    \/ RemoteMove

Spec == Init /\ [][Next]_vars

(***************************************************************************)
(* The indexer of a fresh deployment against a remote chain that changes   *)
(* by appends and by reorgs followed by appends, with no failing call and  *)
(* a consumer that keeps taking events.  The executor polls the machine    *)
(* whenever it can make a step, the requests to the adapter complete, and  *)
(* the remote chain stops changing after MaxRemoteMoves changes.           *)
(***************************************************************************)
InitLive == Init /\ store_ptr = None

\* The new chain head is not a block of the chain before: at least one
\* block was appended, on the same branch or after a reorg.
RemoteAppendOrReorg ==
    /\ RemoteMove
    /\ remote_head' \notin Ancestors(remote_head)

MachineLive ==
    /\ \/ poll_start
       \/ poll_load_local_head
       \/ poll_poll_chain_head
       \/ poll_process_blocks
       \/ poll_vet_block
       \/ poll_fetch_forked_blocks
       \/ poll_revert_to_fork_base
       \/ poll_add_block
    /\ NoFailure

FetchLive == fetch_block_and_uncles_by_number /\ NoFailure

NextLive ==
    \/ poll_start /\ NoFailure
    \/ poll_load_local_head /\ NoFailure
    \/ poll_poll_chain_head /\ NoFailure
    \/ poll_process_blocks /\ NoFailure
    \/ poll_vet_block /\ NoFailure
    \/ poll_fetch_forked_blocks /\ NoFailure
    \/ poll_revert_to_fork_base /\ NoFailure
    \/ poll_add_block /\ NoFailure
    \/ FetchLive
    \/ Receive
    \/ RemoteAppendOrReorg

LiveSpec ==
    /\ InitLive
    /\ [][NextLive]_vars
    /\ WF_vars(MachineLive)
    /\ WF_vars(FetchLive)
    /\ WF_vars(Receive)

(***************************************************************************)
(* The indexer against a remote chain that stays as it is and is higher    *)
(* than the local chain, with a consumer that keeps taking events: calls   *)
(* fail up to MaxFailures times and then no more.                          *)
(***************************************************************************)
InitHeal ==
    /\ Init
    /\ store_ptr = None \/ Unwrap(store_ptr).number < remote_head.number

MachineStep ==
    \/ poll_start
    \/ poll_load_local_head
    \/ poll_poll_chain_head
    \/ poll_process_blocks
    \/ poll_vet_block
    \/ poll_fetch_forked_blocks
    \/ poll_revert_to_fork_base
    \/ poll_add_block

NextHeal ==
    \/ MachineStep
    \/ fetch_block_and_uncles_by_number
    \/ Receive

HealSpec ==
    /\ InitHeal
    /\ [][NextHeal]_vars
    /\ WF_vars(MachineStep)
    /\ WF_vars(fetch_block_and_uncles_by_number)
    /\ WF_vars(Receive)

(***************************************************************************)
(* take_event_stream, called any number of times on the indexer just       *)
(* constructed, while the spawned machine runs (nobody receives yet).      *)
(***************************************************************************)
\* A faulty variant: the field keeps the value it hands out.
TakeKeeps(o) == [result |-> o, output |-> o]

\* Option::take: hands out the value of the field and leaves None in it.
Take(o) == [result |-> o, output |-> None]

\* `self.output.take().map(|s| Box::new(s) as Box<dyn Stream<..>>)`
take_event_stream ==
    /\ Len(taken) < MaxTakes
    /\ taken' = Append(taken, Take(output).result)
    /\ output' = Take(output).output
    /\ UNCHANGED <<machine, store, channel, closed, remote_head, init_head,
                   failures, moves>>

InitTake ==
    /\ Constructed
    /\ output = Some(Receiver)
    /\ taken = <<>>

NextTake ==
    \/ take_event_stream
    \/ MachineStep
    \/ fetch_block_and_uncles_by_number

TakeSpec == InitTake /\ [][NextTake]_vars

(***************************************************************************)
(* Properties.                                                             *)
(***************************************************************************)
IsAdd(e) == e.type = "AddBlock"
IsRevert(e) == e.type = "Revert"

\* The block of the universe a pointer points to, and its parent pointer.
BlockOf(p) == Unwrap(BlockByHash(p.hash))
ParentOf(p) == parent_ptr(BlockOf(p))

\* C1 (durability before emission): every AddBlock(p) on the channel has a
\* successful block-writer write of p before it, and every Revert{from, to}
\* a successful revert_block_operations(from, to); nothing is emitted for a
\* write or revert that failed or has not completed.
DurabilityBeforeEmission ==
    \A i \in 1..Len(emitted) :
        IF IsAdd(emitted[i])
        THEN emitted[i].block \in writes
        ELSE <<emitted[i].from, emitted[i].to>> \in reverts

\* Both kinds of event were emitted, and a write failed on the way.
DurabilityWitness ==
    /\ \E i \in 1..Len(emitted) : IsAdd(emitted[i])
    /\ \E i \in 1..Len(emitted) : IsRevert(emitted[i])
    /\ failures = <<"block_writer">>

\* The local chain at construction, as pointers from block #0 to the tip.
RECURSIVE ChainTo(_)
ChainTo(head) ==
    IF head = None THEN <<>>
    ELSE Append(ChainTo(ParentOf(Unwrap(head))), Unwrap(head))

\* The chain the events describe: an AddBlock appends its pointer, a Revert
\* removes the pointer it undoes.
RECURSIVE Remaining(_, _)
Remaining(chain, events) ==
    IF events = <<>> THEN chain
    ELSE LET e == Head(events)
         IN  Remaining(IF IsAdd(e) THEN Append(chain, e.block)
                       ELSE SelectSeq(chain, LAMBDA p : p /= e.from),
                       Tail(events))

ParentLinked(chain) ==
    \A i \in 1..Len(chain) :
        ParentOf(chain[i]) = (IF i = 1 THEN None ELSE Some(chain[i - 1]))

\* C2 (chain contiguity): at every point the pointers of the emitted
\* AddBlock events, minus those undone by later Revert events, continue the
\* initial local chain as a parent-linked chain from block #0: the parent
\* pointer of each remaining block is the remaining block before it.
ChainContiguity == ParentLinked(Remaining(ChainTo(init_head), emitted))

\* C3 (local head is the store tip): whenever the machine is in PollChainHead
\* or ProcessBlocks (the consumer still there), local_head is the store's
\* block pointer, also after RevertToForkBase ended in an error.
LocalHeadIsStoreTip ==
    (~closed /\ pc \in {"PollChainHead", "ProcessBlocks"})
        => local_head = store_ptr

\* The step in which the block-writer write of the block in AddBlock fails.
WriteFails ==
    /\ pc = "AddBlock"
    /\ phase = "write"
    /\ failures' = Append(failures, "block_writer")

\* C4 (write failure): when the write of block B fails in AddBlock, no event
\* is emitted, the store is unchanged, and the machine moves to PollChainHead
\* with the local_head it had before the attempt (not B's pointer) and
\* without the block stream.
WriteFailureKeepsOldHead ==
    [][WriteFails =>
          /\ emitted' = emitted
          /\ store_ptr' = store_ptr
          /\ store_blocks' = store_blocks
          /\ pc' = "PollChainHead"
          /\ local_head' = local_head
          /\ local_head' /= Some(Ptr(Unwrap(block)))
          /\ next_blocks' = NoStream]_vars

\* A write failed after a block was added: the machine polls the chain head
\* again from the block added before.
WriteFailureWitness ==
    /\ failures = <<"block_writer">>
    /\ pc = "PollChainHead"
    /\ emitted /= <<>>
    /\ IsAdd(Last(emitted))
    /\ local_head = Some(Last(emitted).block)
    /\ store_ptr = local_head

\* The step in which RevertToForkBase completes successfully.
RevertCompletes == pc = "RevertToForkBase" /\ pc' = "ProcessBlocks"

\* The blocks of the new branch above the fork base, up to the block that
\* revealed the reorg: parent-linked from the fork base, in ascending order.
IsNewBranch(pre, base) ==
    \A i \in 1..Len(pre) :
        parent_ptr(pre[i]) = Some(IF i = 1 THEN base ELSE Ptr(pre[i - 1]))

\* C5 (successful revert): when RevertToForkBase completes for fork base F,
\* the new local_head is F, the store tip is F, the store holds no block
\* above F.number, and the machine continues in ProcessBlocks with the
\* stream that has the forked blocks prepended.
RevertReachesForkBase ==
    [][RevertCompletes =>
          /\ local_head' = fork_base
          /\ store_ptr' = fork_base
          /\ \A e \in store_blocks' : e.number <= Unwrap(fork_base).number
          /\ next_blocks' = next_blocks
          /\ next_blocks'.pre /= <<>>
          /\ IsNewBranch(next_blocks'.pre, Unwrap(fork_base))]_vars

\* A revert over two blocks just completed: the machine is in ProcessBlocks
\* at the fork base, with the forked blocks in front of its stream.
RevertReachesForkBaseWitness ==
    /\ pc = "ProcessBlocks"
    /\ Len(emitted) >= 2
    /\ IsRevert(Last(emitted))
    /\ IsRevert(emitted[Len(emitted) - 1])
    /\ local_head = Some(Last(emitted).to)
    /\ store_ptr = local_head
    /\ next_blocks.pre /= <<>>

\* The store tip the events imply, event by event: Broken marks a sequence
\* with an event that does not apply at the tip it meets.  A Revert applies
\* at its `from`, leads to the parent one number below and sets the tip to
\* it; an AddBlock applies at its parent pointer and sets the tip to itself.
Broken == Some([number |-> -1, hash |-> -1])

RECURSIVE TipAfter(_, _)
TipAfter(tip, events) ==
    IF events = <<>> \/ tip = Broken THEN tip
    ELSE LET e == Head(events)
         IN  IF IsRevert(e)
             THEN TipAfter(IF /\ tip = Some(e.from)
                              /\ e.to.number = e.from.number - 1
                              /\ ParentOf(e.from) = Some(e.to)
                           THEN Some(e.to) ELSE Broken,
                           Tail(events))
             ELSE TipAfter(IF ParentOf(e.block) = tip
                           THEN Some(e.block) ELSE Broken,
                           Tail(events))

\* How many Revert events RevertToForkBase has emitted so far.
RevertsSent ==
    IF phase = "revert" THEN idx - 1
    ELSE IF phase = "flush" THEN idx
    ELSE 0

\* C6 (order of a reorg): when no operation fails, a reorg from local head H
\* to fork base F emits one Revert per consecutive pair of local blocks from
\* H down to F, in descending height, each to.number = from.number - 1, and
\* only then the AddBlock events of the new branch, ascending from
\* F.number + 1.
ReorgEventOrder ==
    failures = <<>> =>
        /\ TipAfter(init_head, emitted) /= Broken
        /\ (~closed /\ pc \in {"PollChainHead", "ProcessBlocks", "VetBlock",
                                "FetchForkedBlocks"}) =>
               TipAfter(init_head, emitted) = local_head
        /\ (pc = "RevertToForkBase" /\ phase /= "collect") =>
               /\ blocks[1] = Unwrap(local_head)
               /\ Last(blocks) = Unwrap(fork_base)
               /\ RevertsSent <= Len(emitted)
               /\ \A k \in 1..RevertsSent :
                      emitted[Len(emitted) - RevertsSent + k]
                          = RevertEvent(blocks[k], blocks[k + 1])

\* A reorg of depth 2 without a failure: two Revert events, then the first
\* AddBlock of the new branch on top of the fork base.
ReorgEventOrderWitness ==
    /\ failures = <<>>
    /\ \E i \in 1..(Len(emitted) - 2) :
          /\ IsRevert(emitted[i])
          /\ IsRevert(emitted[i + 1])
          /\ IsAdd(emitted[i + 2])
          /\ emitted[i + 1].from = emitted[i].to
          /\ emitted[i + 2].block.number = emitted[i + 1].to.number + 1

\* The local blocks strictly above the fork base: the branch a reorg replaces.
ReplacedBranch ==
    {Ptr(b) : b \in {a \in Ancestors(BlockOf(Unwrap(local_head))) :
                        a.number > Unwrap(fork_base).number}}

\* The step in which the machine leaves RevertToForkBase and goes on (the
\* consumer still there).
LeavesRevert ==
    /\ pc = "RevertToForkBase"
    /\ pc' \in {"PollChainHead", "ProcessBlocks"}
    /\ ~closed'

\* C7 (revert symmetry): in every reorg the pointers that appear as `from`
\* of the emitted Revert events are the local blocks strictly above the fork
\* base, each exactly once, and the fork base is never a `from`.  (A reorg
\* attempt that ends before its first Revert event emits nothing.)
RevertSymmetry ==
    [][LeavesRevert =>
          LET sent == RevertsSent + Len(emitted') - Len(emitted)
              froms == {emitted'[j].from :
                           j \in (Len(emitted') - sent + 1)..Len(emitted')}
          IN  (sent > 0 \/ pc' = "ProcessBlocks") =>
                  /\ froms = ReplacedBranch
                  /\ sent = Cardinality(ReplacedBranch)
                  /\ Unwrap(fork_base) \notin froms]_vars

\* C8 (monotone extension between reverts): of two AddBlock events with no
\* Revert event between them, the later one has the higher block number,
\* also across failed writes, fetch errors and re-polls.
AddBlocksIncreaseBetweenReverts ==
    \A i, j \in 1..Len(emitted) :
        (/\ i < j
         /\ IsAdd(emitted[i])
         /\ IsAdd(emitted[j])
         /\ \A k \in i..j : ~IsRevert(emitted[k]))
            => emitted[i].block.number < emitted[j].block.number

\* After a Revert, two blocks were added in a row, and one call failed on
\* the way.
AddBlocksIncreaseWitness ==
    /\ failures /= <<>>
    /\ \E i \in 1..(Len(emitted) - 2) :
          /\ IsRevert(emitted[i])
          /\ IsAdd(emitted[i + 1])
          /\ IsAdd(emitted[i + 2])

\* C9 (no duplicate adds): AddBlock(p) is not emitted twice for the same p
\* unless a Revert event with from = p was emitted between the two.
NoDuplicateAdds ==
    \A i, j \in 1..Len(emitted) :
        (/\ i < j
         /\ IsAdd(emitted[i])
         /\ IsAdd(emitted[j])
         /\ emitted[i].block = emitted[j].block)
            => \E k \in (i + 1)..(j - 1) :
                   /\ IsRevert(emitted[k])
                   /\ emitted[k].from = emitted[i].block

\* A block was added, reverted, and added again.
ReAddWitness ==
    \E i, j \in 1..Len(emitted) :
        /\ i < j
        /\ IsAdd(emitted[i])
        /\ IsAdd(emitted[j])
        /\ emitted[i].block = emitted[j].block
        /\ \E k \in (i + 1)..(j - 1) :
               IsRevert(emitted[k]) /\ emitted[k].from = emitted[i].block

\* C10 (round trip): the remote chain changes finitely often, each time by
\* an append or by a reorg followed by an append (also to a tip that is not
\* higher than the local head), then stays fixed, and no call fails: the
\* machine reaches a state where the store tip is the tip of the remote
\* chain, and stays there.
EventuallySynced == <>[](store_ptr = Some(Ptr(remote_head)))

\* C11 (self-healing): after a non-fatal failure the machine is in
\* PollChainHead with the last durable local_head (the store tip), and once
\* the failures stop, with the channel open, the local head reaches the head
\* of the remote chain without a restart (unless the initial load failed).
SelfHealing ==
    /\ [](pc = "PollChainHead" => local_head = store_ptr)
    /\ \/ <>(pc = "Failed")
       \/ <>[](local_head = Some(Ptr(remote_head)))

\* C12 (downstream closed): from the moment the consumer dropped the output
\* stream, no further event is emitted and the store is not modified (no
\* block write, no revert), and the machine's next transition ends it.
NoEffectAfterClosure ==
    [][closed =>
          /\ emitted' = emitted
          /\ store_blocks' = store_blocks
          /\ store_ptr' = store_ptr
          /\ pc' \in {pc, "Failed", "PollChainHead"}]_vars

\* C13 (fatal errors): the machine ends in the Failed (error) outcome only
\* when the initial load of the local head fails; no other failure and no
\* closure of the downstream channel ends it with an error.
FailedOnlyOnLoad == pc = "Failed" => error = "load_local_head"

\* The transitions that hand the block stream on to the next state.
StreamCarried ==
    {<<"ProcessBlocks", "VetBlock">>, <<"VetBlock", "AddBlock">>,
     <<"VetBlock", "FetchForkedBlocks">>,
     <<"FetchForkedBlocks", "RevertToForkBase">>,
     <<"RevertToForkBase", "ProcessBlocks">>, <<"AddBlock", "ProcessBlocks">>}

\* The states that hold a block stream.
StreamStates ==
    {"ProcessBlocks", "VetBlock", "FetchForkedBlocks", "RevertToForkBase",
     "AddBlock"}

\* C14 (errors discard the stream): every non-fatal error in ProcessBlocks,
\* VetBlock, FetchForkedBlocks, RevertToForkBase and AddBlock (stream error,
\* gap, invalid or stale block, failed fork walk, revert, write or send)
\* moves the machine to PollChainHead without the block stream; the stream
\* is handed on only by the transitions of StreamCarried.
ErrorsDiscardStream ==
    [][(pc \in StreamStates /\ pc' /= pc) =>
          /\ \/ <<pc, pc'>> \in StreamCarried
             \/ pc' \in {"PollChainHead", "Failed", "Panicked"}
          /\ pc' \notin StreamStates => next_blocks' = NoStream
          /\ failures' /= failures => pc' = "PollChainHead"
          /\ (/\ pc = "ProcessBlocks"
              /\ ~closed
              /\ PollStream(next_blocks).status \in {"err", "none", "end"})
                => pc' = "PollChainHead"
          /\ (/\ pc = "VetBlock"
              /\ ~closed
              /\ \/ ~IsValid(Unwrap(block))
                 \/ IsStale(Unwrap(block), local_head))
                => pc' = "PollChainHead"
          /\ (pc = "AddBlock" /\ phase = "send" /\ closed)
                => pc' = "PollChainHead"]_vars

\* A store call failed during a reorg, after the stream had been handed to
\* FetchForkedBlocks: the machine polls the chain head again, without it.
ErrorsDiscardStreamWitness ==
    /\ failures = <<"store">>
    /\ pc = "PollChainHead"
    /\ next_blocks = NoStream
    /\ local_head /= None
    /\ ~closed

\* The number of the element of the stream whose fetch failed or found no
\* block: the failed fetch if there is one, else the element at the front.
FailingNumber(s) ==
    LET f == Fill(s)
        failed == {i \in 1..Len(f.queue) :
                      /\ f.queue[i].result /= None
                      /\ Unwrap(f.queue[i].result).kind = "err"}
    IN  IF failed /= {}
        THEN f.queue[CHOOSE i \in failed : \A j \in failed : i <= j].number
        ELSE Head(f.queue).number

\* The step in which ProcessBlocks meets a failed fetch or a gap.
FetchFailureHandled ==
    /\ pc = "ProcessBlocks"
    /\ pc' /= pc
    /\ ~closed
    /\ PollStream(next_blocks).status \in {"err", "none"}

\* C15 (fetch failure within a range): when the fetch of number n of the
\* range fails or finds no block, only blocks below n have been added, what
\* was emitted and written stays, the machine returns to PollChainHead with
\* the last block added as local_head, and the next range starts at
\* local_head.number + 1.
FetchFailureKeepsProgress ==
    [][/\ FetchFailureHandled =>
             /\ emitted' = emitted
             /\ store_blocks' = store_blocks
             /\ store_ptr' = store_ptr
             /\ pc' = "PollChainHead"
             /\ local_head' = local_head
             /\ local_head /= None =>
                    Unwrap(local_head).number < FailingNumber(next_blocks)
             /\ (emitted /= <<>> /\ IsAdd(Last(emitted))) =>
                    local_head = Some(Last(emitted).block)
       /\ (pc = "PollChainHead" /\ pc' = "ProcessBlocks") =>
             /\ next_blocks'.pre = <<>>
             /\ next_blocks'.queue = <<>>
             /\ next_blocks'.lo = (IF local_head = None THEN 0
                                   ELSE Unwrap(local_head).number + 1)]_vars

\* Block #0 of the first range of a fresh deployment was added, a fetch
\* result for #1 was bad, and the machine polls the chain head again with
\* #0 as local head.
FetchFailureWitness ==
    /\ init_head = None
    /\ moves = 0
    /\ remote_head.number >= 1
    /\ failures = <<"adapter">>
    /\ pc = "PollChainHead"
    /\ emitted = <<AddBlockEvent(Ptr(MainBlock(0)))>>
    /\ local_head = Some(Ptr(MainBlock(0)))
    /\ store_ptr = local_head

\* C16 (range computation): on a valid chain head C the range requested is
\* [next, next + size) with next = local_head.number + 1 (0 without a local
\* head) and size = min(C.number + 1 - next, RangeCap).
RangeRequested ==
    [][(pc = "PollChainHead" /\ pc' = "ProcessBlocks") =>
          LET next == IF local_head = None THEN 0
                      ELSE Unwrap(local_head).number + 1
              size == Min(remote_head.number + 1 - next, RangeCap)
          IN  next_blocks' = [pre |-> <<>>, lo |-> next, hi |-> next + size,
                              queue |-> <<>>]]_vars

\* The machine holds a stream over an empty range that starts right above
\* the local head.
EmptyRangeHeld ==
    /\ local_head /= None
    /\ next_blocks = [pre |-> <<>>, lo |-> Unwrap(local_head).number + 1,
                      hi |-> Unwrap(local_head).number + 1, queue |-> <<>>]

\* C17 (chain head at the local head's number): the range requested is
\* empty, nothing is emitted, written or reverted, local_head stays, and
\* ProcessBlocks goes back to PollChainHead.
EqualHeadIsNoOp ==
    [][/\ (/\ pc = "PollChainHead" /\ pc' = "ProcessBlocks"
           /\ local_head /= None
           /\ remote_head.number = Unwrap(local_head).number) =>
             /\ EmptyRangeHeld'
             /\ local_head' = local_head
             /\ emitted' = emitted
             /\ store' = store
       /\ (pc = "ProcessBlocks" /\ EmptyRangeHeld /\ ~closed /\ pc' /= pc) =>
             /\ pc' = "PollChainHead"
             /\ local_head' = local_head
             /\ emitted' = emitted
             /\ store' = store]_vars

\* The store was loaded with a tip at the number of the remote head, and
\* ProcessBlocks holds the empty range requested for it.
EqualHeadWitness ==
    /\ pc = "ProcessBlocks"
    /\ EmptyRangeHeld
    /\ remote_head.number = Unwrap(local_head).number
    /\ init_head = local_head
    /\ emitted = <<>>
    /\ moves = 0
    /\ ~closed

\* AddBlock(#0), ..., AddBlock(#n) for the remote chain that ends in #n.
ExpectedAdds ==
    LET c == ChainTo(Some(Ptr(remote_head)))
    IN  [i \in 1..Len(c) |-> AddBlockEvent(c[i])]

\* A fresh deployment on an unchanged remote chain, no call failed so far.
FreshAndFaultless == init_head = None /\ moves = 0 /\ failures = <<>>

\* C18 (genesis and linear sync): with an empty store, a linear remote
\* chain #0..#n and no failures, block #0 counts as the successor of "no
\* local head", the reorg branch is never taken, and the events are exactly
\* AddBlock(#0), ..., AddBlock(#n) in that order.
GenesisLinearSync ==
    /\ [](FreshAndFaultless =>
            /\ Len(emitted) <= Len(ExpectedAdds)
            /\ emitted = SubSeq(ExpectedAdds, 1, Len(emitted))
            /\ pc \notin {"FetchForkedBlocks", "RevertToForkBase"}
            /\ (pc = "AddBlock" /\ local_head = None) =>
                   Unwrap(block) = MainBlock(0))
    /\ \/ init_head /= None
       \/ <>(failures /= <<>>)
       \/ <>[](emitted = ExpectedAdds)

\* A fresh deployment has emitted AddBlock(#0), ..., AddBlock(#n), n >= 1,
\* for the remote chain, without any failure.
GenesisLinearSyncWitness ==
    /\ FreshAndFaultless
    /\ remote_head.number >= 1
    /\ emitted = ExpectedAdds
    /\ emitted[1] = AddBlockEvent(Ptr(MainBlock(0)))
    /\ local_head = Some(Ptr(remote_head))

\* The machine rests: no transition, no write or revert in the store, no
\* event, nothing started on or taken from the block stream.
MachineRests ==
    /\ <<pc, phase, local_head, block, idx>>' = <<pc, phase, local_head, block, idx>>
    /\ store' = store
    /\ emitted' = emitted
    /\ next_blocks'.pre = next_blocks.pre
    /\ next_blocks'.lo = next_blocks.lo
    /\ Len(next_blocks'.queue) = Len(next_blocks.queue)

\* C19 as stated (backpressure): the channel never holds more than
\* ChannelBuffer undelivered events.
ChannelWithinBuffer == undelivered <= ChannelBuffer

\* C19 as the code has it: the channel never holds more than ChannelBuffer
\* events plus the one of the sending handle; a send into a channel that
\* already holds ChannelBuffer events queues its event and then waits, the
\* wait ends only when the consumer takes an event (or goes away), and
\* while the send waits the machine rests.
BackpressureStalls ==
    /\ [](undelivered <= ChannelBuffer + 1)
    /\ [](parked <=> (~closed /\ undelivered = ChannelBuffer + 1))
    /\ [][/\ (emitted' /= emitted /\ undelivered >= ChannelBuffer) =>
              (parked' /\ pc' = pc /\ local_head' = local_head)
          /\ (emitted' /= emitted /\ undelivered < ChannelBuffer) => ~parked'
          /\ (parked /\ ~parked') =>
              (undelivered' = undelivered - 1 \/ closed')
          /\ parked => MachineRests]_vars

\* An AddBlock send waits: the channel holds its buffer and the event of
\* the waiting send, the block is written, local_head is still the old one.
BackpressureWitness ==
    /\ parked
    /\ ~closed
    /\ undelivered = ChannelBuffer + 1
    /\ pc = "AddBlock"
    /\ phase = "flush"
    /\ store_ptr = Some(Ptr(Unwrap(block)))
    /\ local_head /= store_ptr

\* The lowest number of the range the stream has not delivered yet.
NextUndelivered(s) == IF s.queue = <<>> THEN s.lo ELSE Head(s.queue).number

\* The fetches of the stream that were started and have not completed.
InFlight(s) == {i \in 1..Len(s.queue) : s.queue[i].result = None}

\* The fetches of the stream that failed.
FailedFetches(s) ==
    {i \in 1..Len(s.queue) : /\ s.queue[i].result /= None
                             /\ Unwrap(s.queue[i].result).kind = "err"}

\* ProcessBlocks polls the fetches of the range (no forked block in front).
RangePolled ==
    /\ pc = "ProcessBlocks"
    /\ pc' /= pc
    /\ ~closed
    /\ next_blocks.pre = <<>>

StoreIsChain ==
    /\ \A b, c \in store_blocks : b.number = c.number => b = c
    /\ \A b \in store_blocks :
          b.number > 0 =>
             \E q \in store_blocks : /\ q.number = b.number - 1
                                     /\ q.hash = b.parent_hash
    /\ (store_ptr = None) <=> (store_blocks = {})
    /\ store_ptr /= None =>
          /\ \E b \in store_blocks : Ptr(b) = Unwrap(store_ptr)
          /\ \A b \in store_blocks : b.number <= Unwrap(store_ptr).number

\* The pointer the emitted events lead to from the initial local head: an
\* AddBlock leads to its block, a Revert to its `to`.
AppliedTip ==
    IF emitted = <<>> THEN init_head
    ELSE IF IsAdd(Last(emitted)) THEN Some(Last(emitted).block)
    ELSE Some(Last(emitted).to)

\* C22 (nothing durable without its event): outside AddBlock and
\* RevertToForkBase, also when the machine has ended on a closed channel,
\* the store tip is the pointer the emitted events lead to from the initial
\* local head.
StoreTipMatchesEvents ==
    pc \notin {"AddBlock", "RevertToForkBase"} => store_ptr = AppliedTip

\* C23 (the event stream is handed out once): the first call of
\* take_event_stream returns the receiving end of the channel, every later
\* call returns none.
StreamTakenOnce ==
    /\ \A i \in 1..Len(taken) :
          taken[i] = (IF i = 1 THEN Some(Receiver) ELSE None)
    /\ taken /= <<>> => output = None

\* take_event_stream was called MaxTakes times while the machine ran.
StreamTakenOnceWitness ==
    /\ Len(taken) = MaxTakes
    /\ taken[1] = Some(Receiver)
    /\ taken[MaxTakes] = None
    /\ pc /= "Start"

\* The block is in the local store.
InStore(b) == \E e \in store_blocks : e.hash = b.hash

\* C24 (fork base discovery): fetch_forked_blocks(head) returns head, its
\* parent, ... down to the fork base, each element the remote parent of the
\* one before it and one number lower; the last element is the only one in
\* the store, so it is the newest stored block on head's ancestor path; it
\* returns no list when no ancestor of head is in the store, and a failing
\* lookup or fetch ends the state without a fork base.
ForkBaseIsNewestStoredAncestor ==
    /\ [](pc = "FetchForkedBlocks" =>
            LET head == Unwrap(block)
                r == fetch_forked_blocks(head)
                l == r.blocks
            IN  /\ r.ok <=> (\E a \in Ancestors(head) : InStore(a))
                /\ r.ok =>
                      /\ l[1] = head
                      /\ \A i \in 1..(Len(l) - 1) :
                            /\ BlockByHash(l[i].parent_hash) = Some(l[i + 1])
                            /\ l[i + 1].number = l[i].number - 1
                            /\ ~InStore(l[i])
                      /\ InStore(Last(l))
                      /\ \A a \in Ancestors(head) :
                            InStore(a) => a.number <= Last(l).number
                      /\ InStore(head) => l = <<head>>
                /\ ~r.ok => l = <<>>)
    /\ [][pc = "FetchForkedBlocks" =>
            LET r == fetch_forked_blocks(Unwrap(block))
            IN  /\ pc' = "RevertToForkBase" =>
                      (r.ok /\ fork_base' = Some(Ptr(Last(r.blocks))))
                /\ (pc' /= pc /\ ~closed /\ (failures' /= failures \/ ~r.ok)) =>
                      (pc' = "PollChainHead" /\ fork_base' = None)
                /\ store' = store]_vars

\* A reorg of depth 2 was found: the walk went from the head of the new
\* branch over its parent to the stored fork base, two numbers below.
ForkBaseWitness ==
    /\ pc = "RevertToForkBase"
    /\ phase = "collect"
    /\ fork_base /= None
    /\ Len(next_blocks.pre) = 2
    /\ Unwrap(fork_base).number = next_blocks.pre[1].number - 1
    /\ \E e \in store_blocks : Ptr(e) = Unwrap(fork_base)
    /\ Unwrap(local_head).number > Unwrap(fork_base).number

\* The pointers met when following the stored parents from pointer p, as
\* far as the store has the blocks.
RECURSIVE StoredWalk(_)
StoredWalk(p) ==
    {p} \cup (IF StoreGet(p.hash) = {} \/ p.number = 0 THEN {}
              ELSE StoredWalk([number |-> p.number - 1,
                               hash |-> Unwrap(StoreGet(p.hash)).parent_hash]))

\* RevertToForkBase is about to collect the blocks to revert.
Collecting == pc = "RevertToForkBase" /\ phase = "collect"

\* C25 (collecting the blocks to revert): collect_blocks_to_revert ends
\* either with the list local_head, ..., fork_base, each element the
\* stored parent of the one before it and one number lower, or with an
\* error because a block of the walk is not in the store; it never goes
\* below number 0 and does not change the store.
CollectEndsAtForkBase ==
    /\ [](Collecting =>
            LET head == Unwrap(local_head)
                base == Unwrap(fork_base)
                c == collect_blocks_to_revert(head, base)
                l == c.blocks
            IN  /\ c.status \in {"ok", "err"}
                /\ c.status = "ok" <=> base \in StoredWalk(head)
                /\ c.status = "ok" =>
                      /\ l[1] = head
                      /\ Last(l) = base
                      /\ \A i \in 1..Len(l) : l[i].number >= 0
                      /\ \A i \in 1..(Len(l) - 1) :
                            /\ StoreGet(l[i].hash) /= {}
                            /\ l[i + 1].number = l[i].number - 1
                            /\ l[i + 1].hash
                                  = Unwrap(StoreGet(l[i].hash)).parent_hash
                /\ c.status = "err" =>
                      /\ l = <<>>
                      /\ \E q \in StoredWalk(head) : StoreGet(q.hash) = {})
    /\ [][Collecting =>
            LET c == collect_blocks_to_revert(Unwrap(local_head),
                                              Unwrap(fork_base))
            IN  /\ store' = store
                /\ emitted' = emitted
                /\ (pc' = pc /\ phase' = "revert") =>
                      (c.status = "ok" /\ blocks' = c.blocks /\ idx' = 1)
                /\ (pc' /= pc /\ ~closed) => pc' = "PollChainHead"]_vars

\* The walk of a reorg of depth 2 is done: local head, its stored parent,
\* the fork base.
CollectWitness ==
    /\ pc = "RevertToForkBase"
    /\ phase = "revert"
    /\ idx = 1
    /\ Len(blocks) = 3
    /\ blocks[1] = Unwrap(local_head)
    /\ blocks[3] = Unwrap(fork_base)
    /\ store_ptr = local_head

\* The part of the stream over the range: what is not started, and the
\* numbers of the started fetches, in order.
RangePart(s) ==
    <<s.lo, s.hi, [i \in 1..Len(s.queue) |-> s.queue[i].number]>>

\* C26 (the stream after a reorg): when FetchForkedBlocks succeeds with
\* B, ..., fork_base, the stream handed on delivers the forked blocks
\* without the fork base, oldest first and B last, and then what the
\* carried stream still held, in its order; RevertToForkBase hands the
\* stream on untouched, and ProcessBlocks takes the blocks from its front.
ForkedBlocksFirst ==
    [][/\ (pc = "FetchForkedBlocks" /\ pc' = "RevertToForkBase") =>
             LET l == fetch_forked_blocks(Unwrap(block)).blocks
                 n == Len(l) - 1
                 pre == next_blocks'.pre
             IN  /\ Len(pre) = n + Len(next_blocks.pre)
                 /\ \A i \in 1..n : pre[i] = l[n + 1 - i]
                 /\ n > 0 =>
                       /\ pre[n] = Unwrap(block)
                       /\ parent_ptr(pre[1]) = Some(Ptr(Last(l)))
                 /\ \A i \in 1..(n - 1) :
                       parent_ptr(pre[i + 1]) = Some(Ptr(pre[i]))
                 /\ \A i \in 1..n : pre[i] /= Last(l)
                 /\ SubSeq(pre, n + 1, Len(pre)) = next_blocks.pre
                 /\ next_blocks'.queue = next_blocks.queue
                 /\ RangePart(next_blocks') = RangePart(next_blocks)
       /\ (/\ pc = "RevertToForkBase"
           /\ pc' \in {"RevertToForkBase", "ProcessBlocks"}) =>
             /\ next_blocks'.pre = next_blocks.pre
             /\ RangePart(next_blocks') = RangePart(next_blocks)
       /\ (/\ pc = "ProcessBlocks" /\ pc' /= pc /\ ~closed
           /\ next_blocks.pre /= <<>>) =>
             /\ pc' = "VetBlock"
             /\ block' = Some(Head(next_blocks.pre))
             /\ next_blocks' = [next_blocks EXCEPT !.pre = Tail(@)]]_vars

\* A reorg onto a branch of two blocks is reconciled: the reverts are
\* emitted, the local head is the fork base, and the two blocks of the new
\* branch are the next of the stream, the child of the fork base first.
ForkedBlocksFirstWitness ==
    /\ pc = "ProcessBlocks"
    /\ Len(next_blocks.pre) = 2
    /\ emitted /= <<>>
    /\ IsRevert(Last(emitted))
    /\ local_head = Some(Last(emitted).to)
    /\ parent_ptr(next_blocks.pre[1]) = local_head
    /\ parent_ptr(next_blocks.pre[2]) = Some(Ptr(next_blocks.pre[1]))

\* C27 (a second reorg from the carried stream): a valid block that is not
\* below the local head and whose parent pointer is not the local head goes
\* from VetBlock to FetchForkedBlocks, and the reorg is made against the
\* local head of that moment; only a block whose parent pointer is the
\* local head is written or announced by an AddBlock event.
OnlySuccessorsAdded ==
    [][/\ (pc = "VetBlock" /\ pc' /= pc /\ ~closed) =>
             LET b == Unwrap(block)
                 mismatch == /\ b.number /= -1
                             /\ b.hash /= -1
                             /\ local_head /= None =>
                                   b.number >= Unwrap(local_head).number
                             /\ parent_ptr(b) /= local_head
             IN  /\ mismatch =>
                       /\ pc' = "FetchForkedBlocks"
                       /\ block' = block
                       /\ local_head' = local_head
                       /\ next_blocks' = next_blocks
                 /\ pc' = "FetchForkedBlocks" => mismatch
                 /\ pc' = "AddBlock" =>
                       (block' = block /\ parent_ptr(b) = local_head)
                 /\ store' = store
                 /\ emitted' = emitted
       /\ (pc = "FetchForkedBlocks" /\ pc' = "RevertToForkBase") =>
             local_head' = local_head
       /\ \A b \in store_blocks' \ store_blocks :
             parent_ptr(b) = local_head
       /\ (emitted' /= emitted /\ IsAdd(Last(emitted'))) =>
             ParentOf(Last(emitted').block) = local_head]_vars

\* A reorg from the main to the side branch was reconciled (Revert, then the
\* AddBlock events of the side branch), and the next block of the stream is
\* a block of the main branch again: VetBlock has sent it to
\* FetchForkedBlocks for a second reorg against the side-branch head.
SecondReorgWitness ==
    /\ pc = "FetchForkedBlocks"
    /\ failures = <<>>
    /\ Len(emitted) >= 2
    /\ IsRevert(emitted[1])
    /\ IsAdd(Last(emitted))
    /\ local_head = Some(Last(emitted).block)
    /\ store_ptr = local_head
    /\ Unwrap(block).number = Unwrap(local_head).number + 1
    /\ parent_ptr(Unwrap(block)) /= local_head

\* The machine changes its local head although it neither sets it for the
\* first time (after the load) nor ends.
LocalHeadChanges ==
    /\ local_head' /= local_head
    /\ pc \notin {"Start", "LoadLocalHead"}
    /\ pc' \notin {"Failed", "Panicked"}

\* AddBlock succeeds: the local head becomes the added block, one number up.
AddBlockSucceeds ==
    /\ pc = "AddBlock"
    /\ pc' = "ProcessBlocks"
    /\ local_head' = Some(Ptr(Unwrap(block)))
    /\ Unwrap(local_head').number
          = (IF local_head = None THEN 0 ELSE Unwrap(local_head).number + 1)

\* RevertToForkBase succeeds: the local head becomes the fork base.
RevertSucceeds ==
    /\ pc = "RevertToForkBase"
    /\ pc' = "ProcessBlocks"
    /\ local_head' = fork_base
    /\ Unwrap(local_head').number <= Unwrap(local_head).number

\* The local head, the store and the events stay as they are.
NoEffect ==
    /\ local_head' = local_head
    /\ store' = store
    /\ emitted' = emitted

\* C28 (frame of local_head): local_head changes only when AddBlock
\* succeeds (to the added block, one number up) or RevertToForkBase
\* succeeds (to the fork base, not above the old head); every other
\* transition, and an AddBlock or RevertToForkBase that ends in its error
\* transition, leaves local_head, the store and the events as they were
\* when the state was entered.
LocalHeadFrame ==
    [][/\ LocalHeadChanges => (AddBlockSucceeds \/ RevertSucceeds)
       /\ (/\ pc \in {"PollChainHead", "ProcessBlocks", "VetBlock",
                       "FetchForkedBlocks"}
           /\ pc' \notin {"Failed", "Panicked"}) => NoEffect
       /\ (pc = "AddBlock" /\ pc' = "PollChainHead") =>
             (NoEffect /\ phase = AddBlockStages[1])
       /\ (pc = "RevertToForkBase" /\ pc' = "PollChainHead") =>
             (NoEffect /\ RevertsSent = 0)]_vars

\* C29 (the machine never completes): the Ready state is never entered,
\* and a machine whose load of the local head succeeded and whose channel
\* is open has not ended.
NeverReady ==
    /\ pc /= "Ready"
    /\ pc \in {"Failed", "Panicked"} =>
          (closed \/ error = "load_local_head")

\* C30 (no underflow of the range size): for every valid chain head C,
\* also one below the local head, the computation of the remaining blocks
\* does not underflow (no panic, no wrapped size), the range requested
\* holds no number above C.number, and it is empty when C.number < next.
RangeWithinChainHead ==
    [][pc = "PollChainHead" =>
          /\ pc' /= "Panicked"
          /\ pc' = "ProcessBlocks" =>
                /\ next_blocks'.hi <= remote_head.number + 1
                /\ remote_head.number
                      < (IF local_head = None THEN 0
                         ELSE Unwrap(local_head).number + 1)
                   => next_blocks'.lo = next_blocks'.hi]_vars

\* C31 (the assertions of the reorg path hold): FetchForkedBlocks is never
\* entered or completed without a local head, the forked blocks it resolves
\* to are never empty when the fork base is popped, revert_blocks is never
\* called with an empty list of pointers, and no step of FetchForkedBlocks
\* ends in a panic.
ReorgAssertionsHold ==
    /\ [](/\ pc \in {"FetchForkedBlocks", "RevertToForkBase"} =>
                 local_head /= None
          /\ (pc = "FetchForkedBlocks" /\ block /= None) =>
                 LET r == fetch_forked_blocks(Unwrap(block))
                 IN  r.ok => Len(r.blocks) >= 1
          /\ (pc = "RevertToForkBase" /\ phase = "collect") =>
                 LET c == collect_blocks_to_revert(Unwrap(local_head),
                                                   Unwrap(fork_base))
                 IN  c.status = "ok" => Len(c.blocks) >= 1
          /\ (pc = "RevertToForkBase" /\ phase = "revert") =>
                 Len(blocks) >= 1)
    /\ [][pc = "FetchForkedBlocks" => pc' /= "Panicked"]_vars

\* A reorg went through FetchForkedBlocks with a local head, the fork base
\* was popped and revert_blocks runs over the collected pointers.
ReorgPathWitness ==
    /\ pc = "RevertToForkBase"
    /\ phase = "revert"
    /\ local_head /= None
    /\ fork_base /= None
    /\ Len(blocks) >= 2

====
